---- MODULE Spec2Model ----
(***************************************************************************)
(* State-machine model of the mbed music player (src/main.cpp).            *)
(*                                                                         *)
(* Shared playback state: songCount, currentSong, playing.  It is mutated  *)
(* by the four control functions nextSong, prevSong, playSong and          *)
(* shuffleSong, which are called from the PinDetect callbacks (interrupt   *)
(* context, run to completion) and from BluetoothThread (task context,     *)
(* preemptible between any two memory accesses).  LCDThread polls the      *)
(* shared state and repaints the display.                                  *)
(***************************************************************************)
EXTENDS Integers, Sequences, FiniteSets, TLC

\* ------------------------------------------------------------------ bounds
\* Largest library (number of directory entries read at startup).
MaxSongs == 3
\* How far currentSong may leave [0, songCount) before the model stops
\* following it (the code itself has no such limit).
MaxDrift == 2
\* Accelerometer axis readings range over -MaxReading..MaxReading, in units
\* of 1/ReadingsPerUnit of 10^-5 g.
MaxReading == 3
ReadingsPerUnit == 2
\* Bytes the remote may deliver in the byte-level remote specification.
MaxBytes == 4
\* Frames the remote may deliver in the concurrent specification.
MaxFrames == 2
\* Number of most recent control-function calls kept in hist.
HistLen == 3

VARIABLES
    songCount,       \* int songCount
    currentSong,     \* int currentSong
    playing,         \* bool playing
    btPc,            \* BluetoothThread: position in the loop body
    btReg,           \* BluetoothThread: value loaded by the running control function
    bnum,            \* BluetoothThread: char bnum
    previousSongBLE, \* BluetoothThread: int previousSongBLE
    sent,            \* track named by the last notification put on the link
    rx,              \* bytes received by the serial port, not yet read by getc()
    rxBudget,        \* bytes the remote may still deliver
    lcdPc,           \* LCDThread: position in the loop body
    previousSongLCD, \* LCDThread: int previousSongLCD
    prevPlayLCD,     \* LCDThread: bool prevPlayLCD
    shownTrack,      \* track whose name is on display row 13
    shownStatus,     \* TRUE when row 14 reads "STATUS: PLAYING"
    markers,         \* set of track indices whose list row carries "->"
    row12,           \* text on display row 12
    mPc,             \* main(): position in startup and in the playback loop
    dirLeft,         \* main(): directory entries readdir() has not returned yet
    waveFile,        \* main(): FILE *wave_file, "none", "open", "null" or "closed"
    mSong,           \* main(): index of the track whose file the last fopen() named
    openFiles,       \* number of playback files currently open
    avPc,            \* AudioVisualizerThread: position in the loop body
    leds,            \* number of LEDs lit, led1 first
    pressBudget,     \* button releases still to come, where a specification counts them
    ghostOn,         \* whether the observation variables below are recorded
    hist,            \* the last HistLen control-function calls with the state before each
    btFrame,         \* bytes read by BluetoothThread in the current iteration
    btCalls,         \* control functions BluetoothThread called in the current iteration
    btBefore,        \* <<currentSong, playing>> at the start of the current iteration
    lcdSeen,         \* what the current LCD poll compared: <<song differs, play differs>>
    lcdRenders,      \* renders of the current LCD poll: <<track region, status region>>
    avSpun           \* TRUE when the last AudioVisualizerThread iteration ended without a wait

vars == <<songCount, currentSong, playing, btPc, btReg, bnum, previousSongBLE,
          sent, rx, rxBudget, lcdPc, previousSongLCD, prevPlayLCD, shownTrack,
          shownStatus, markers, ghostOn, hist, btFrame, btCalls, btBefore,
          lcdSeen, lcdRenders, row12, mPc, dirLeft, waveFile, mSong, openFiles,
          avPc, leds, pressBudget, avSpun>>

sharedVars == <<songCount, currentSong, playing>>
btVars == <<btPc, btReg, bnum, previousSongBLE, sent>>
rxVars == <<rx, rxBudget>>
lcdVars == <<lcdPc, previousSongLCD, prevPlayLCD, shownTrack, shownStatus, markers, row12>>
mainVars == <<mPc, dirLeft, waveFile, mSong, openFiles>>
avVars == <<avPc, leds, avSpun>>
btGhost == <<btFrame, btCalls, btBefore>>
lcdGhost == <<lcdSeen, lcdRenders>>

\* ------------------------------------------------------- C++ arithmetic
\* C++ integer division truncates toward zero.
CDiv(a, b) == IF a >= 0 THEN a \div b ELSE -((-a) \div b)

\* C++ a % b for b > 0: the remainder has the sign of the dividend.
CRem(a, b) == IF a >= 0 THEN a % b ELSE -((-a) % b)

\* Stands for the text printed from songList[i] when i is outside the
\* vector: no track's name.
NoTrack == 1000

\* Values of currentSong the model follows.
IdxWindow == (0 - MaxDrift)..(songCount - 1 + MaxDrift)

InRange(c) == 0 <= c /\ c < songCount

\* ---------------------------------------------------- control functions
\* nextSong(): the value stored to currentSong when it holds c and
\* songCount holds n.
nextSongNoWrap(c, n) == c + 1

\* The compare of nextSong(): currentSong == songCount - 1.
nextSongWraps(c, n) == c = n - 1

\* Lines 68 and 72: the value stored, given the outcome of the compare and
\* the value c that currentSong++ increments.
nextSongStore(wraps, c) == IF wraps THEN 0 ELSE c + 1

nextSong(c, n) == nextSongStore(nextSongWraps(c, n), c)

\* prevSong()
prevSongWrapZero(c, n) == IF c = 0 THEN 0 ELSE c - 1

\* The compare of prevSong(): currentSong == 0.
prevSongWraps(c) == c = 0

\* Lines 86 and 90: the value stored, given the outcome of the compare and
\* the value c that currentSong-- decrements.
prevSongStore(wraps, c, n) == IF wraps THEN n - 1 ELSE c - 1

prevSong(c, n) == prevSongStore(prevSongWraps(c), c, n)

\* playSong()
playSongSet(p) == TRUE

playSong(p) == ~p

\* One axis of acc.readXYZGravity, in units of 1/ReadingsPerUnit of 10^-5 g.
AxisReadings == (0 - MaxReading)..MaxReading

\* int(100000 * (x + y + z)): the conversion to int truncates toward zero.
ScaledReading(x, y, z) == CDiv(x + y + z, ReadingsPerUnit)

\* shuffleSong(): int(100000 * (x + y + z)) % songCount
shuffleSong(x, y, z, n) == CRem(ScaledReading(x, y, z), n)

\* The values shuffleSong() can store for a library of n tracks, over all
\* readings of the three axes.
ShuffleOutcomes ==
    [n \in 1..MaxSongs |->
        {shuffleSong(x, y, z, n) : x \in AxisReadings, y \in AxisReadings, z \in AxisReadings}]

\* ------------------------------------------------- observation variables
LastCalls(s) == IF Len(s) > HistLen THEN Tail(s) ELSE s

Record(op) ==
    hist' = IF ghostOn
            THEN LastCalls(Append(hist, [op |-> op, song |-> currentSong, play |-> playing]))
            ELSE hist

\* -------------------------------------------- PinDetect callbacks (ISR)
\* The callbacks run in interrupt context: each runs to completion before
\* any task continues.
nextInt ==
    /\ LET v == nextSong(currentSong, songCount)
       IN  v \in IdxWindow /\ currentSong' = v
    /\ Record("nextSong")
    /\ UNCHANGED <<mainVars, avVars, songCount, playing, btVars, rxVars, lcdVars, ghostOn,
                   btGhost, lcdGhost>>

prevInt ==
    /\ LET v == prevSong(currentSong, songCount)
       IN  v \in IdxWindow /\ currentSong' = v
    /\ Record("prevSong")
    /\ UNCHANGED <<mainVars, avVars, songCount, playing, btVars, rxVars, lcdVars, ghostOn,
                   btGhost, lcdGhost>>

playInt ==
    /\ playing' = playSong(playing)
    /\ Record("playSong")
    /\ UNCHANGED <<mainVars, avVars, songCount, currentSong, btVars, rxVars, lcdVars,
                   ghostOn, btGhost, lcdGhost>>

shuffleInt ==
    /\ \E v \in ShuffleOutcomes[songCount] :
          v \in IdxWindow /\ currentSong' = v
    /\ Record("shuffleSong")
    /\ UNCHANGED <<mainVars, avVars, songCount, playing, btVars, rxVars, lcdVars, ghostOn,
                   btGhost, lcdGhost>>

Buttons == nextInt \/ prevInt \/ playInt \/ shuffleInt

\* ------------------------------------------------------ BluetoothThread
\* Bytes the remote can send: the preamble, the button codes, the edge
\* bytes and one byte that is none of them.
Bytes == {"!", "B", "0", "1", "2", "3", "4", "X"}

\* The remote delivers one byte to the serial port.
RemoteByte ==
    /\ rxBudget > 0
    /\ \E b \in Bytes : rx' = Append(rx, b)
    /\ rxBudget' = rxBudget - 1
    /\ UNCHANGED <<mainVars, avVars, pressBudget, sharedVars, btVars, lcdVars, ghostOn,
                   hist, btGhost, lcdGhost>>

\* The Control Pad sends the release frame of one of its four buttons.
RemoteFrame ==
    /\ rxBudget >= 4
    /\ \E c \in {"1", "2", "3", "4"} : rx' = rx \o <<"!", "B", c, "0">>
    /\ rxBudget' = rxBudget - 4
    /\ UNCHANGED <<mainVars, avVars, pressBudget, sharedVars, btVars, lcdVars, ghostOn,
                   hist, btGhost, lcdGhost>>

\* The name printed for songList[i]: track i, or no track's name when i is
\* outside the vector.
NameOf(i) == IF InRange(i) THEN i ELSE NoTrack

\* getc() returned Head(rx).
Getc ==
    /\ rx # <<>>
    /\ rx' = Tail(rx)
    /\ btFrame' = IF ghostOn THEN Append(btFrame, Head(rx)) ELSE btFrame
    /\ UNCHANGED rxBudget

\* Line 249: if (bhit == '0')
EdgeAny(bhit) == TRUE

EdgeIsRelease(bhit) == bhit = "0"

\* The switch on bnum with cases '2' and '3' exchanged.
OpOfCodeSwapped(code) ==
    CASE code = "1" -> "play"
      [] code = "2" -> "prev"
      [] code = "3" -> "next"
      [] code = "4" -> "shuffle"
      [] OTHER -> "wait"

\* The call made for a frame with edge byte '0' (the switch on bnum).
OpOfCode(code) ==
    CASE code = "1" -> "play"
      [] code = "2" -> "next"
      [] code = "3" -> "prev"
      [] code = "4" -> "shuffle"
      [] OTHER -> "wait"

\* Line 217-220: if (blueTooth.writeable()) if (previousSongBLE != currentSong)
BtTop ==
    /\ btPc = "top"
    /\ \E writeable \in BOOLEAN :
          btPc' = IF writeable /\ previousSongBLE # currentSong THEN "push" ELSE "poll"
    /\ btFrame' = <<>> /\ btCalls' = <<>>
    /\ btBefore' = IF ghostOn THEN <<currentSong, playing>> ELSE btBefore
    /\ UNCHANGED <<mainVars, avVars, pressBudget, sharedVars, btReg, bnum, previousSongBLE,
                   sent, rxVars, lcdVars, ghostOn, hist, lcdGhost>>

\* Lines 223-232: "Current Song: " and the name of songList[currentSong].
BtPush ==
    /\ btPc = "push"
    /\ sent' = NameOf(currentSong)
    /\ btPc' = "pushed"
    /\ UNCHANGED <<mainVars, avVars, pressBudget, sharedVars, btReg, bnum, previousSongBLE,
                   rxVars, lcdVars, ghostOn, hist, btGhost, lcdGhost>>

\* Line 233: previousSongBLE = currentSong
BtPushed ==
    /\ btPc = "pushed"
    /\ previousSongBLE' = currentSong
    /\ btPc' = "poll"
    /\ UNCHANGED <<mainVars, avVars, pressBudget, sharedVars, btReg, bnum, sent, rxVars,
                   lcdVars, ghostOn, hist, btGhost, lcdGhost>>

\* Lines 238-241: if (blueTooth.readable()) if (blueTooth.getc() == '!')
BtPoll ==
    /\ btPc = "poll"
    /\ \/ /\ rx = <<>>
          /\ btPc' = "wait"
          /\ UNCHANGED <<rxVars, btFrame>>
       \/ /\ Getc
          /\ btPc' = IF Head(rx) = "!" THEN "getB" ELSE "wait"
    /\ UNCHANGED <<mainVars, avVars, pressBudget, sharedVars, btReg, bnum, previousSongBLE,
                   sent, lcdVars, ghostOn, hist, btCalls, btBefore, lcdGhost>>

\* Line 243: if (blueTooth.getc() == 'B'); getc() blocks until a byte arrives.
BtGetB ==
    /\ btPc = "getB"
    /\ Getc
    /\ btPc' = IF Head(rx) = "B" THEN "getNum" ELSE "wait"
    /\ UNCHANGED <<mainVars, avVars, pressBudget, sharedVars, btReg, bnum, previousSongBLE,
                   sent, lcdVars, ghostOn, hist, btCalls, btBefore, lcdGhost>>

\* Line 246: char bnum = blueTooth.getc()
BtGetNum ==
    /\ btPc = "getNum"
    /\ Getc
    /\ bnum' = Head(rx)
    /\ btPc' = "getHit"
    /\ UNCHANGED <<mainVars, avVars, pressBudget, sharedVars, btReg, previousSongBLE, sent,
                   lcdVars, ghostOn, hist, btCalls, btBefore, lcdGhost>>

\* Lines 248-271: char bhit = blueTooth.getc(); if (bhit == '0') switch (bnum)
BtGetHit ==
    /\ btPc = "getHit"
    /\ Getc
    /\ btPc' = IF EdgeIsRelease(Head(rx)) THEN OpOfCode(bnum) ELSE "wait"
    /\ btCalls' = IF ghostOn /\ btPc' # "wait" THEN Append(btCalls, btPc') ELSE btCalls
    /\ UNCHANGED <<mainVars, avVars, pressBudget, sharedVars, btReg, bnum, previousSongBLE,
                   sent, lcdVars, ghostOn, hist, btBefore, lcdGhost>>

\* playSong() in the task, line 103: the load of playing ...
BtPlayLoad ==
    /\ btPc = "play"
    /\ btReg' = IF playing THEN 1 ELSE 0
    /\ btPc' = "play_store"
    /\ UNCHANGED <<mainVars, avVars, pressBudget, sharedVars, bnum, previousSongBLE, sent,
                   rxVars, lcdVars, ghostOn, hist, btGhost, lcdGhost>>

\* ... and the store of its negation.
BtPlayStore ==
    /\ btPc = "play_store"
    /\ playing' = playSong(btReg = 1)
    /\ btPc' = "wait"
    /\ UNCHANGED <<mainVars, avVars, pressBudget, songCount, currentSong, btReg, bnum,
                   previousSongBLE, sent, rxVars, lcdVars, ghostOn, hist, btGhost,
                   lcdGhost>>

\* nextSong() in the task, line 66: the load of currentSong for the compare.
BtNextCmp ==
    /\ btPc = "next"
    /\ btReg' = currentSong
    /\ btPc' = "next_upd"
    /\ UNCHANGED <<mainVars, avVars, pressBudget, sharedVars, bnum, previousSongBLE, sent,
                   rxVars, lcdVars, ghostOn, hist, btGhost, lcdGhost>>

\* Lines 68 and 72: the store.  currentSong++ adds one to the value the
\* compare loaded or to a fresh load of currentSong, as the build decides.
BtNextUpd ==
    /\ btPc = "next_upd"
    /\ \E c \in {btReg, currentSong} :
          LET v == nextSongStore(nextSongWraps(btReg, songCount), c)
          IN  v \in IdxWindow /\ currentSong' = v
    /\ btPc' = "wait"
    /\ UNCHANGED <<mainVars, avVars, pressBudget, songCount, playing, btReg, bnum,
                   previousSongBLE, sent, rxVars, lcdVars, ghostOn, hist, btGhost,
                   lcdGhost>>

\* prevSong() in the task, line 84: the load of currentSong for the compare.
BtPrevCmp ==
    /\ btPc = "prev"
    /\ btReg' = currentSong
    /\ btPc' = "prev_upd"
    /\ UNCHANGED <<mainVars, avVars, pressBudget, sharedVars, bnum, previousSongBLE, sent,
                   rxVars, lcdVars, ghostOn, hist, btGhost, lcdGhost>>

\* Lines 86 and 90: the store.
BtPrevUpd ==
    /\ btPc = "prev_upd"
    /\ \E c \in {btReg, currentSong} :
          LET v == prevSongStore(prevSongWraps(btReg), c, songCount)
          IN  v \in IdxWindow /\ currentSong' = v
    /\ btPc' = "wait"
    /\ UNCHANGED <<mainVars, avVars, pressBudget, songCount, playing, btReg, bnum,
                   previousSongBLE, sent, rxVars, lcdVars, ghostOn, hist, btGhost,
                   lcdGhost>>

\* shuffleSong() in the task, lines 117-118: one store of the computed value.
BtShuffle ==
    /\ btPc = "shuffle"
    /\ \E v \in ShuffleOutcomes[songCount] :
          v \in IdxWindow /\ currentSong' = v
    /\ btPc' = "wait"
    /\ UNCHANGED <<mainVars, avVars, pressBudget, songCount, playing, btReg, bnum,
                   previousSongBLE, sent, rxVars, lcdVars, ghostOn, hist, btGhost,
                   lcdGhost>>

\* Line 276: Thread::wait(50)
BtWait ==
    /\ btPc = "wait"
    /\ btPc' = "top"
    /\ UNCHANGED <<mainVars, avVars, pressBudget, sharedVars, btReg, bnum, previousSongBLE,
                   sent, rxVars, lcdVars, ghostOn, hist, btGhost, lcdGhost>>

BluetoothThread ==
    \/ BtTop \/ BtPush \/ BtPushed \/ BtPoll \/ BtGetB \/ BtGetNum \/ BtGetHit
    \/ BtPlayLoad \/ BtPlayStore \/ BtNextCmp \/ BtNextUpd \/ BtPrevCmp \/ BtPrevUpd
    \/ BtShuffle \/ BtWait

\* ------------------------------------------------------------ LCDThread
\* The display is modelled by what its three changing regions show: row 13
\* (shownTrack), row 14 (shownStatus) and the "->" column of the list rows
\* (markers, by track index: track i is listed on row i + 1).

\* Lines 133-149: clear the screen, print the list, "->" on row 1.
LcdInitList ==
    /\ lcdPc = "init"
    /\ markers' = {0}
    /\ lcdPc' = "init_name"
    /\ UNCHANGED <<mainVars, avVars, pressBudget, row12, sharedVars, btVars, rxVars,
                   previousSongLCD, prevPlayLCD, shownTrack, shownStatus, ghostOn, hist,
                   btGhost, lcdGhost>>

\* Lines 152-161: the name of songList[currentSong], "STATUS: PAUSED",
\* prevPlayLCD = false, previousSongLCD = 0.
LcdInitName ==
    /\ lcdPc = "init_name"
    /\ row12' = "NOW PLAYING:"
    /\ shownTrack' = NameOf(currentSong)
    /\ shownStatus' = FALSE
    /\ prevPlayLCD' = FALSE
    /\ previousSongLCD' = 0
    /\ lcdPc' = "cmp_song"
    /\ UNCHANGED <<mainVars, avVars, pressBudget, sharedVars, btVars, rxVars, markers,
                   ghostOn, hist, btGhost, lcdGhost>>

\* Line 167: if (previousSongLCD != currentSong); a poll begins here.
LcdCmpSong ==
    /\ lcdPc = "cmp_song"
    /\ lcdPc' = IF previousSongLCD # currentSong THEN "name" ELSE "cmp_play"
    /\ lcdSeen' = <<previousSongLCD # currentSong, FALSE>>
    /\ lcdRenders' = <<0, 0>>
    /\ UNCHANGED <<mainVars, avVars, pressBudget, row12, sharedVars, btVars, rxVars,
                   previousSongLCD, prevPlayLCD, shownTrack, shownStatus, markers, ghostOn,
                   hist, btGhost>>

\* Lines 170-173: "NOW PLAYING:" and the name of songList[currentSong].
LcdName ==
    /\ lcdPc = "name"
    /\ row12' = "NOW PLAYING:"
    /\ shownTrack' = NameOf(currentSong)
    /\ lcdRenders' = <<lcdRenders[1] + 1, lcdRenders[2]>>
    /\ lcdPc' = "mark"
    /\ UNCHANGED <<mainVars, avVars, pressBudget, sharedVars, btVars, rxVars,
                   previousSongLCD, prevPlayLCD, shownStatus, markers, ghostOn, hist,
                   btGhost, lcdSeen>>

\* Lines 175-178: blanks on row previousSongLCD + 1, "->" on row
\* currentSong + 1.
LcdMark ==
    /\ lcdPc = "mark"
    /\ markers' = (markers \ {previousSongLCD}) \cup {currentSong}
    /\ lcdPc' = "set_song"
    /\ UNCHANGED <<mainVars, avVars, pressBudget, row12, sharedVars, btVars, rxVars,
                   previousSongLCD, prevPlayLCD, shownTrack, shownStatus, ghostOn, hist,
                   btGhost, lcdGhost>>

\* Line 180 with the assignment turned round: currentSong = previousSongLCD
LcdSetSongBackwards ==
    /\ lcdPc = "set_song"
    /\ currentSong' = previousSongLCD
    /\ lcdPc' = "cmp_play"
    /\ UNCHANGED <<mainVars, avVars, pressBudget, row12, songCount, playing, btVars, rxVars,
                   previousSongLCD, prevPlayLCD, shownTrack, shownStatus, markers,
                   ghostOn, hist, btGhost, lcdGhost>>

\* Line 180: previousSongLCD = currentSong
LcdSetSong ==
    /\ lcdPc = "set_song"
    /\ previousSongLCD' = currentSong
    /\ lcdPc' = "cmp_play"
    /\ UNCHANGED <<mainVars, avVars, pressBudget, row12, sharedVars, btVars, rxVars,
                   prevPlayLCD, shownTrack, shownStatus, markers, ghostOn, hist, btGhost,
                   lcdGhost>>

\* Line 183: if (prevPlayLCD != playing)
LcdCmpPlay ==
    /\ lcdPc = "cmp_play"
    /\ lcdPc' = IF prevPlayLCD # playing THEN "status" ELSE "wait"
    /\ lcdSeen' = <<lcdSeen[1], prevPlayLCD # playing>>
    /\ UNCHANGED <<mainVars, avVars, pressBudget, row12, sharedVars, btVars, rxVars,
                   previousSongLCD, prevPlayLCD, shownTrack, shownStatus, markers, ghostOn,
                   hist, btGhost, lcdRenders>>

\* Lines 186-194: "STATUS: PLAYING" if (playing), else "STATUS: PAUSED ".
LcdStatus ==
    /\ lcdPc = "status"
    /\ shownStatus' = playing
    /\ lcdRenders' = <<lcdRenders[1], lcdRenders[2] + 1>>
    /\ lcdPc' = "set_play"
    /\ UNCHANGED <<mainVars, avVars, pressBudget, row12, sharedVars, btVars, rxVars,
                   previousSongLCD, prevPlayLCD, shownTrack, markers, ghostOn, hist,
                   btGhost, lcdSeen>>

\* Line 196: prevPlayLCD = playing
LcdSetPlay ==
    /\ lcdPc = "set_play"
    /\ prevPlayLCD' = playing
    /\ lcdPc' = "wait"
    /\ UNCHANGED <<mainVars, avVars, pressBudget, row12, sharedVars, btVars, rxVars,
                   previousSongLCD, shownTrack, shownStatus, markers, ghostOn, hist,
                   btGhost, lcdGhost>>

\* Line 198: Thread::wait(50)
LcdWait ==
    /\ lcdPc = "wait"
    /\ lcdPc' = "cmp_song"
    /\ UNCHANGED <<mainVars, avVars, pressBudget, row12, sharedVars, btVars, rxVars,
                   previousSongLCD, prevPlayLCD, shownTrack, shownStatus, markers, ghostOn,
                   hist, btGhost, lcdGhost>>

LCDThread ==
    \/ LcdInitList \/ LcdInitName \/ LcdCmpSong \/ LcdName \/ LcdMark \/ LcdSetSong
    \/ LcdCmpPlay \/ LcdStatus \/ LcdSetPlay \/ LcdWait

\* ------------------------------------------------ main(): playback loop
\* Everything the playback loop leaves alone.
mainFrame == <<songCount, currentSong, btVars, rxVars, avVars, pressBudget, ghostOn, hist,
               btGhost, lcdGhost, dirLeft, lcdPc, previousSongLCD, prevPlayLCD,
               shownTrack, shownStatus, markers>>

\* fclose() that leaves the file open.
fcloseLeaks(n) == n

\* Line 411 on an open file: one open file fewer.
fclose(n) == n - 1

\* Lines 398-405: the path of songList[currentSong], fopen(), and the error
\* text on row 12 of the display when fopen() returned NULL.
MOpen ==
    /\ mPc = "open"
    /\ mSong' = currentSong
    /\ \E ok \in BOOLEAN :
          IF ok
          THEN waveFile' = "open" /\ openFiles' = openFiles + 1 /\ UNCHANGED row12
          ELSE waveFile' = "null" /\ row12' = "file open error!" /\ UNCHANGED openFiles
    /\ mPc' = "delay"
    /\ UNCHANGED <<mainFrame, playing>>

\* Line 407: Thread::wait(1000)
MDelay ==
    /\ mPc = "delay"
    /\ mPc' = "play"
    /\ UNCHANGED <<mainFrame, playing, waveFile, mSong, openFiles, row12>>

\* Line 409: waver.play(wave_file) is called, whatever fopen() returned.
\* With a null wave_file the player reads through a null FILE *, which is
\* undefined: the call goes on as if it had a file, or the program faults.
MPlay ==
    /\ mPc = "play"
    /\ \/ mPc' = "playing"
       \/ waveFile = "null" /\ mPc' = "fault"
    /\ UNCHANGED <<mainFrame, playing, waveFile, mSong, openFiles, row12>>

\* Line 409: waver.play() returns, at the end of the file or earlier.
MPlayed ==
    /\ mPc = "playing"
    /\ mPc' = "close"
    /\ UNCHANGED <<mainFrame, playing, waveFile, mSong, openFiles, row12>>

\* Line 411: fclose(wave_file), whatever fopen() returned.  fclose(NULL) is
\* undefined: it returns without effect, or the program faults.
MClose ==
    /\ mPc = "close"
    /\ \/ /\ waveFile = "open"
          /\ waveFile' = "closed" /\ openFiles' = fclose(openFiles)
          /\ mPc' = "reset"
       \/ /\ waveFile = "null"
          /\ mPc' \in {"reset", "fault"}
          /\ UNCHANGED <<waveFile, openFiles>>
    /\ UNCHANGED <<mainFrame, playing, mSong, row12>>

\* Line 413: playing = false
MReset ==
    /\ mPc = "reset"
    /\ playing' = FALSE
    /\ mPc' = "open"
    /\ UNCHANGED <<mainFrame, waveFile, mSong, openFiles, row12>>

PlaybackLoop == MOpen \/ MDelay \/ MPlay \/ MPlayed \/ MClose \/ MReset

\* ------------------------------------------------ AudioVisualizerThread
\* Everything AudioVisualizerThread leaves alone.
avFrame == <<sharedVars, btVars, rxVars, lcdVars, mainVars, pressBudget, ghostOn, hist,
             btGhost, lcdGhost>>

\* DACout.read() in thousandths of the full scale: silence and full scale.
LevelReadings == {0, 1000}

\* Lines 291-310: level = (DACout.read() - 0.25f) * 3.3f, here in units of
\* 1/10000, and the number of LEDs lit for it.
LedsFor(reading) ==
    LET level == (reading - 250) * 33
    IN  IF level < 8250 THEN 1
        ELSE IF level < 16500 THEN 2
        ELSE IF level < 24700 THEN 3
        ELSE 4

\* Line 289: if (playing); when playing is false the body is skipped and
\* the iteration ends at line 313, without the Thread::wait(50) of line 311.
AvCheck ==
    /\ avPc = "check"
    /\ IF playing
       THEN avPc' = "sample" /\ UNCHANGED avSpun
       ELSE avPc' = "check" /\ avSpun' = TRUE
    /\ UNCHANGED <<avFrame, leds>>

\* Lines 291-310
AvSample ==
    /\ avPc = "sample"
    /\ \E reading \in LevelReadings : leds' = LedsFor(reading)
    /\ avPc' = "wait"
    /\ UNCHANGED <<avFrame, avSpun>>

\* Line 311: Thread::wait(50)
AvWait ==
    /\ avPc = "wait"
    /\ avPc' = "check"
    /\ avSpun' = FALSE
    /\ UNCHANGED <<avFrame, leds>>

AudioVisualizerThread == AvCheck \/ AvSample \/ AvWait

\* ------------------------------------------------------ main(): startup
\* Everything the startup of main() leaves alone.
bootFrame == <<currentSong, playing, btReg, bnum, previousSongBLE, sent, rxVars,
               previousSongLCD, prevPlayLCD, shownTrack, shownStatus, markers, row12,
               waveFile, mSong, openFiles, leds, avSpun, pressBudget, ghostOn, hist,
               btGhost, lcdGhost>>

\* Lines 357-370: the four callbacks are attached and the sampling of the
\* buttons starts; from here on a button release runs its callback.
MAttach ==
    /\ mPc = "attach"
    /\ mPc' = "scan"
    /\ UNCHANGED <<bootFrame, songCount, dirLeft, btPc, lcdPc, avPc>>

\* Lines 378-381: readdir() returns one more entry; songCount++
MScan ==
    /\ mPc = "scan"
    /\ dirLeft > 0
    /\ songCount' = songCount + 1
    /\ dirLeft' = dirLeft - 1
    /\ UNCHANGED <<bootFrame, mPc, btPc, lcdPc, avPc>>

\* Lines 378, 384-389: readdir() returns NULL, Thread::wait(1000), the
\* three threads are started and main() enters its playback loop.
MStart ==
    /\ mPc = "scan"
    /\ dirLeft = 0
    /\ btPc' = "top" /\ lcdPc' = "init" /\ avPc' = "check"
    /\ mPc' = "open"
    /\ UNCHANGED <<bootFrame, songCount, dirLeft>>

Startup == MAttach \/ MScan \/ MStart

\* ------------------------------------------------------- initial states
\* State once main() has read the directory: songCount entries, currentSong
\* and playing as left by any button presses during startup.
InitShared ==
    /\ songCount \in 1..MaxSongs
    /\ currentSong \in 0..(songCount - 1)
    /\ playing \in BOOLEAN

\* BluetoothThread at its entry (line 212: previousSongBLE = 0) when
\* started, with budget bytes still to come from the remote.
InitBt(started, budget) ==
    /\ btPc = IF started THEN "top" ELSE "off"
    /\ btReg = 0 /\ bnum = "0" /\ previousSongBLE = 0
    /\ sent = NoTrack /\ rx = <<>> /\ rxBudget = budget

\* LCDThread at its entry when started; the display is blank.
InitLcd(started) ==
    /\ lcdPc = IF started THEN "init" ELSE "off"
    /\ previousSongLCD = 0 /\ prevPlayLCD = FALSE
    /\ shownTrack = NoTrack /\ shownStatus = FALSE /\ markers = {} /\ row12 = ""

\* main() in its playback loop (line 394) when started, no file open yet.
InitMain(started) ==
    /\ mPc = IF started THEN "open" ELSE "off"
    /\ dirLeft = 0 /\ waveFile = "none" /\ mSong = 0 /\ openFiles = 0

\* AudioVisualizerThread at its entry when started; the LEDs are off.
InitAv(started) ==
    /\ avPc = IF started THEN "check" ELSE "off"
    /\ leds = 0 /\ avSpun = FALSE

\* The tasks a specification leaves out, and its budget of button releases.
InitRest(presses) == InitMain(FALSE) /\ InitAv(FALSE) /\ pressBudget = presses

InitGhost(on) ==
    /\ ghostOn = on
    /\ hist = <<>> /\ btFrame = <<>> /\ btCalls = <<>>
    /\ btBefore = <<currentSong, playing>>
    /\ lcdSeen = <<FALSE, FALSE>> /\ lcdRenders = <<0, 0>>

\* Control functions called one after another, with no task running.
InitSeq ==
    InitShared /\ InitBt(FALSE, 0) /\ InitLcd(FALSE) /\ InitGhost(TRUE) /\ InitRest(0)

\* A button release in a specification that does not count them.
Released == Buttons /\ UNCHANGED pressBudget

SpecSeq == InitSeq /\ [][Released]_vars

\* The control surface under concurrency: the button callbacks interrupt
\* BluetoothThread, which executes the frames the Control Pad sends.
Init ==
    /\ InitShared /\ InitBt(TRUE, 4 * MaxFrames) /\ InitLcd(FALSE) /\ InitGhost(FALSE)
    /\ InitRest(0)

Next == Released \/ RemoteFrame \/ BluetoothThread

Spec == Init /\ [][Next]_vars

\* C1: with songCount > 0, currentSong is in [0, songCount) in every
\* reachable state, whatever the interleaving of nextSong, prevSong and
\* shuffleSong called from the button callbacks and from BluetoothThread.
C1_IndexInRange == songCount > 0 => InRange(currentSong)

\* BluetoothThread alone, fed arbitrary bytes.
InitRemote ==
    InitShared /\ InitBt(TRUE, MaxBytes) /\ InitLcd(FALSE) /\ InitGhost(TRUE) /\ InitRest(0)

NextRemote == RemoteByte \/ BluetoothThread

SpecRemote == InitRemote /\ [][NextRemote]_vars

\* BluetoothThread with the byte stream, scheduled fairly: the RTOS runs the
\* thread whenever it is ready (it is not ready inside a blocked getc()), and
\* blueTooth.writeable() is true again and again, so that a poll that finds a
\* push pending while the thread keeps polling eventually finds it writable.
SpecPush ==
    /\ InitRemote /\ [][NextRemote]_vars
    /\ WF_vars(BluetoothThread)
    /\ SF_vars(BtTop /\ btPc' = "push")

\* LCDThread with the next, previous and play buttons.  The RTOS runs
\* LCDThread again after every Thread::wait(50): its steps are weakly fair.
InitDisplay ==
    InitShared /\ InitBt(FALSE, 0) /\ InitLcd(TRUE) /\ InitGhost(FALSE) /\ InitRest(0)

NextDisplay == ((nextInt \/ prevInt \/ playInt) /\ UNCHANGED pressBudget) \/ LCDThread

SpecDisplay == InitDisplay /\ [][NextDisplay]_vars /\ WF_vars(LCDThread)

\* The playback loop of main() with the next, previous and play buttons.
InitDriver ==
    /\ InitShared /\ InitBt(FALSE, 0) /\ InitLcd(FALSE) /\ InitGhost(FALSE)
    /\ InitMain(TRUE) /\ InitAv(FALSE) /\ pressBudget = 0

NextDriver == ((nextInt \/ prevInt \/ playInt) /\ UNCHANGED pressBudget) \/ PlaybackLoop

SpecDriver == InitDriver /\ [][NextDriver]_vars

\* Number of button releases followed while all four tasks run.
MaxPresses == 1

\* A button release, counted.
Pressed ==
    /\ pressBudget > 0
    /\ pressBudget' = pressBudget - 1
    /\ Buttons

\* The steps BluetoothThread takes while nothing arrives from the Control
\* Pad: the status push and the poll that finds nothing readable.
StatusPush == BtTop \/ BtPush \/ BtPushed \/ BtPoll \/ BtWait

\* The program after line 389 with MaxSongs tracks, when no button was
\* released during startup:
\* LCDThread, BluetoothThread and AudioVisualizerThread started, main() in
\* its playback loop, the buttons attached, the Control Pad silent.
InitTasks ==
    /\ songCount = MaxSongs /\ currentSong = 0 /\ playing = FALSE
    /\ InitBt(TRUE, 0) /\ InitLcd(TRUE) /\ InitGhost(FALSE)
    /\ InitMain(TRUE) /\ InitAv(TRUE) /\ pressBudget = MaxPresses

NextTasks ==
    Pressed \/ LCDThread \/ StatusPush \/ AudioVisualizerThread \/ PlaybackLoop

SpecTasks == InitTasks /\ [][NextTasks]_vars

\* BluetoothThread with one release of the play button and one frame of
\* the Control Pad, playing false at first.
InitToggle ==
    /\ songCount \in 1..MaxSongs /\ currentSong \in 0..(songCount - 1) /\ playing = FALSE
    /\ InitBt(TRUE, 4) /\ InitLcd(FALSE) /\ InitGhost(TRUE)
    /\ InitMain(FALSE) /\ InitAv(FALSE) /\ pressBudget = 1

NextToggle ==
    \/ (pressBudget > 0 /\ pressBudget' = pressBudget - 1 /\ playInt)
    \/ RemoteFrame
    \/ BluetoothThread

SpecToggle == InitToggle /\ [][NextToggle]_vars

\* main() from its first line, with a directory of 1..MaxSongs entries.
\* Once attached, the callbacks of the next, previous and play buttons
\* run at every release.  (shuffleSong() with songCount = 0 divides by
\* zero and is not followed.)
InitBoot ==
    /\ songCount = 0 /\ currentSong = 0 /\ playing = FALSE
    /\ InitBt(FALSE, 0) /\ InitLcd(FALSE) /\ InitGhost(FALSE) /\ InitAv(FALSE)
    /\ mPc = "attach" /\ dirLeft \in 1..MaxSongs
    /\ waveFile = "none" /\ mSong = 0 /\ openFiles = 0
    /\ pressBudget = 0

NextBoot ==
    \/ Startup
    \/ (mPc # "attach" /\ (nextInt \/ prevInt \/ playInt) /\ UNCHANGED pressBudget)

SpecBoot == InitBoot /\ [][NextBoot]_vars

\* ------------------------------------------- claims on sequential calls
\* Call k of hist, counted from the most recent one (k = 0).
Call(k) == hist[Len(hist) - k]

NavOps == {"nextSong", "prevSong"}

\* C2: when nextSong and prevSong are called one after another, starting
\* from an index in [0, songCount), currentSong is in [0, songCount) after
\* each call.
C2_NavStaysInRange ==
    /\ ((Len(hist) >= 1 /\ Call(0).op \in NavOps /\ InRange(Call(0).song))
          => InRange(currentSong))
    /\ ((Len(hist) >= 2 /\ Call(0).op \in NavOps /\ Call(1).op \in NavOps
           /\ InRange(Call(1).song))
          => (InRange(Call(0).song) /\ InRange(currentSong)))

\* A retreat at index 0 followed by an advance at the last index, in the
\* largest library.
C2_Witness ==
    /\ Len(hist) >= 2 /\ songCount = MaxSongs
    /\ Call(1).op = "prevSong" /\ Call(1).song = 0
    /\ Call(0).op = "nextSong" /\ Call(0).song = songCount - 1

\* C3: from an index c in [0, songCount), nextSong stores (c + 1) mod
\* songCount and prevSong stores (c - 1 + songCount) mod songCount; with 3
\* tracks, three advances from 0 give 1, 2, 0.
C3_NextPrevModular ==
    /\ ((Len(hist) >= 1 /\ Call(0).op = "nextSong" /\ InRange(Call(0).song))
          => (currentSong = (Call(0).song + 1) % songCount))
    /\ ((Len(hist) >= 1 /\ Call(0).op = "prevSong" /\ InRange(Call(0).song))
          => (currentSong = (Call(0).song - 1 + songCount) % songCount))
    /\ ((Len(hist) >= 3 /\ songCount = 3 /\ Call(2).song = 0
           /\ (\A k \in 0..2 : Call(k).op = "nextSong"))
          => (Call(1).song = 1 /\ Call(0).song = 2 /\ currentSong = 0))

\* Three advances from index 0 in a library of 3 tracks.
C3_Witness ==
    /\ Len(hist) >= 3 /\ songCount = 3 /\ Call(2).song = 0
    /\ \A k \in 0..2 : Call(k).op = "nextSong"
    /\ currentSong = 0

\* A single-track library: advance and retreat both stay at 0.
C3_WitnessOneTrack ==
    /\ Len(hist) >= 2 /\ songCount = 1
    /\ Call(1).op = "nextSong" /\ Call(0).op = "prevSong" /\ currentSong = 0

\* C4: nextSong then prevSong, and prevSong then nextSong, return
\* currentSong to the index it had before the two calls.
C4_NextPrevInverse ==
    (/\ Len(hist) >= 2
     /\ <<Call(1).op, Call(0).op>> \in {<<"nextSong", "prevSong">>, <<"prevSong", "nextSong">>}
     /\ InRange(Call(1).song))
      => (currentSong = Call(1).song)

\* Advance then retreat across the wrap, starting at the last index.
C4_Witness ==
    /\ Len(hist) >= 2 /\ songCount = MaxSongs
    /\ Call(1).op = "nextSong" /\ Call(1).song = songCount - 1
    /\ Call(0).op = "prevSong" /\ Call(0).song = 0
    /\ currentSong = songCount - 1

\* C5: playSong called twice in succession returns playing to its value
\* before the two calls and leaves currentSong as it was.
C5_ToggleTwice ==
    (Len(hist) >= 2 /\ Call(1).op = "playSong" /\ Call(0).op = "playSong")
      => (playing = Call(1).play /\ currentSong = Call(1).song)

\* Two toggles starting from paused.
C5_Witness ==
    /\ Len(hist) >= 2 /\ Call(1).op = "playSong" /\ Call(0).op = "playSong"
    /\ Call(1).play = FALSE /\ Call(0).play = TRUE /\ playing = FALSE

\* C6: shuffleSong leaves currentSong in [0, songCount) for every
\* accelerometer reading, negative scaled readings included.
C6_ShuffleInRange ==
    (Len(hist) >= 1 /\ Call(0).op = "shuffleSong") => InRange(currentSong)

\* ------------------------------------------- claims on the remote frames
ValidFrame(f) ==
    /\ Len(f) = 4
    /\ f[1] = "!" /\ f[2] = "B" /\ f[3] \in {"1", "2", "3", "4"} /\ f[4] = "0"

OpPcs == {"play", "play_store", "next", "next_upd", "prev", "prev_upd", "shuffle"}

\* C7: an iteration of BluetoothThread that read a frame '!','B',code,'0'
\* with code in '1'..'4' called exactly one control function, once: '1'
\* playSong, '2' nextSong, '3' prevSong, '4' shuffleSong; at the end of the
\* iteration the shared state is the state before it with that function
\* applied.
C7_FrameRunsItsOp ==
    (btPc = "wait" /\ ValidFrame(btFrame)) =>
        LET code == btFrame[3]
            song0 == btBefore[1]
            play0 == btBefore[2]
        IN  /\ (code = "1") =>
                  (btCalls = <<"play">> /\ playing = (~play0) /\ currentSong = song0)
            /\ (code = "2") =>
                  (/\ btCalls = <<"next">>
                   /\ playing = play0
                   /\ (InRange(song0) => (currentSong = (song0 + 1) % songCount)))
            /\ (code = "3") =>
                  (/\ btCalls = <<"prev">>
                   /\ playing = play0
                   /\ (InRange(song0) => (currentSong = (song0 - 1 + songCount) % songCount)))
            /\ (code = "4") =>
                  (btCalls = <<"shuffle">> /\ playing = play0)

\* Frame '!B20' read at the last index of the largest library.
C7_Witness ==
    /\ btPc = "wait" /\ btFrame = <<"!", "B", "2", "0">>
    /\ songCount = MaxSongs /\ btBefore[1] = songCount - 1 /\ currentSong = 0

\* Frame '!B10' read while paused.
C7_WitnessPlay ==
    /\ btPc = "wait" /\ btFrame = <<"!", "B", "1", "0">>
    /\ btBefore[2] = FALSE /\ playing = TRUE

\* C8: as long as the bytes BluetoothThread has read in an iteration are
\* not a frame '!','B',code in '1'..'4','0', it has called no control
\* function and currentSong and playing are what they were when the
\* iteration began.
C8_BadFrameNoOp ==
    ~ValidFrame(btFrame) =>
        /\ btCalls = <<>>
        /\ btPc \notin OpPcs
        /\ <<currentSong, playing>> = btBefore

\* Frame '!B11' (press edge) read to its end.
C8_Witness ==
    /\ btPc = "wait" /\ btFrame = <<"!", "B", "1", "1">>
    /\ btCalls = <<>> /\ <<currentSong, playing>> = btBefore

\* '!X': the second byte is not 'B'.
C8_WitnessPreamble ==
    /\ btPc = "wait" /\ btFrame = <<"!", "X">> /\ btCalls = <<>>

\* '!B50'-like frame: release edge with a code outside '1'..'4'.
C8_WitnessCode ==
    /\ btPc = "wait" /\ btFrame = <<"!", "B", "X", "0">> /\ btCalls = <<>>

\* ---------------------------------------------- claims on the display
\* The display shows the shared state: the name of the selected track, one
\* marker, on its row, and the status line of playing.
DisplayMatches ==
    /\ shownTrack = currentSong
    /\ markers = {currentSong}
    /\ shownStatus = playing

\* C9: if currentSong and playing stop changing, the display eventually
\* shows them and keeps showing them.
C9_DisplayConverges ==
    (<>[][currentSong' = currentSong /\ playing' = playing]_vars) => <>[]DisplayMatches

\* C10: at the end of a poll, each region was rendered once if the poll
\* found its field different from the last-rendered value and not at all
\* otherwise, and the last-rendered value of a rendered region is the value
\* that was rendered.
C10_RenderOnChange ==
    (lcdPc = "wait") =>
        /\ lcdRenders[1] = (IF lcdSeen[1] THEN 1 ELSE 0)
        /\ lcdRenders[2] = (IF lcdSeen[2] THEN 1 ELSE 0)
        /\ (lcdSeen[1] => (shownTrack = previousSongLCD /\ previousSongLCD \in markers))
        /\ (lcdSeen[2] => (shownStatus = prevPlayLCD))

\* The part of C10 on the number of renders alone.
C10_RenderCounts ==
    (lcdPc = "wait") =>
        /\ lcdRenders[1] = (IF lcdSeen[1] THEN 1 ELSE 0)
        /\ lcdRenders[2] = (IF lcdSeen[2] THEN 1 ELSE 0)

\* ------------------------------------------------- claims on the push
\* C11: if currentSong stops changing, BluetoothThread eventually has sent
\* the notification of the final currentSong and holds it as the last
\* pushed index, whatever bytes arrive, also when a frame stops half way.
C11_PushDelivered ==
    (<>[][currentSong' = currentSong]_vars) => <>[](previousSongBLE = currentSong)

\* The thread waits in a getc() of lines 243-248 for a byte that has not
\* come, with a notification not yet sent.
C11_BlockedWithPushPending ==
    /\ btPc \in {"getB", "getNum", "getHit"}
    /\ rx = <<>>
    /\ previousSongBLE # currentSong

\* ---------------------------------------- claims on the playback loop
\* The steps of one cycle of the playback loop, in the order of lines
\* 398-413, as pairs <<position, next position>>.
CycleOrder ==
    {<<"open", "delay">>, <<"delay", "play">>, <<"play", "playing">>,
     <<"playing", "close">>, <<"close", "reset">>, <<"reset", "open">>}

C13_FailedOpenSkipsPlay ==
    (waveFile = "null") =>
        /\ row12 = "file open error!"
        /\ mPc \in {"delay", "play", "open"}

\* ------------------------------------------- claims on the four tasks
\* A step of nextSong(), prevSong(), playSong() or shuffleSong() that
\* stores to currentSong or playing, called from a button or by
\* BluetoothThread.
ControlOp == Buttons \/ BtPlayStore \/ BtNextUpd \/ BtPrevUpd \/ BtShuffle

\* C14 as stated: every step that changes currentSong or playing is a step
\* of one of the four control operations.
C14_OnlyOpsWrite ==
    [][(currentSong' # currentSong \/ playing' # playing) => ControlOp]_vars

\* C14: a step that changes currentSong is a step of a control operation; a
\* step that changes playing is a step of playSong() or the reset of line
\* 413, which leaves it false; LCDThread, AudioVisualizerThread and the
\* status push leave both unchanged, the playback loop leaves currentSong
\* unchanged.
C14_WritersOfSharedState ==
    [][ /\ ((currentSong' # currentSong) => ControlOp)
        /\ ((playing' # playing) => (playInt \/ BtPlayStore \/ (MReset /\ ~playing')))
        /\ ((LCDThread \/ AudioVisualizerThread \/ StatusPush) =>
                (currentSong' = currentSong /\ playing' = playing))
        /\ (PlaybackLoop => (currentSong' = currentSong)) ]_vars

\* The one button release was of the play button: the display has shown
\* STATUS: PLAYING, the playback loop has ended its cycle and playing is
\* false again, by the reset.
C14_Witness ==
    /\ pressBudget = 0 /\ shownStatus /\ ~playing
    /\ mPc = "open" /\ waveFile = "closed"
    /\ btPc = "wait" /\ avPc = "wait"

\* C15: no iteration of a polling loop ends without its Thread::wait(50);
\* for AudioVisualizerThread, whatever the value of playing.
C15_EveryIterationYields == ~avSpun

\* C17: every step that changes what the display shows is a step of
\* LCDThread.
C17_OnlyLcdWritesDisplay ==
    [][(<<shownTrack, shownStatus, markers, row12>>' # <<shownTrack, shownStatus, markers, row12>>)
            => LCDThread]_vars

\* C16: previousSongBLE starts as the index of no track, so that the first
\* poll that finds the transport writable sends the notification of the
\* track selected at the start.
C16_FirstPollPushes ==
    (btPc = "top" /\ sent = NoTrack /\ InRange(currentSong)) =>
        (~InRange(previousSongBLE) /\ ENABLED (BtTop /\ btPc' = "push"))

\* C18: playSong() called once by playInt and once by BluetoothThread, in
\* any interleaving, leaves playing at its first value, false.
C18_NoLostToggle ==
    (btPc = "wait" /\ btCalls = <<"play">> /\ Len(hist) = 1) => (playing = FALSE)

\* C19: at the end of every poll of LCDThread the display carries one
\* marker, on the row of previousSongLCD.
C19_OneMarker ==
    (lcdPc = "wait") => (markers = {previousSongLCD})

\* C20: nextSong() and prevSong() run only once readdir() has returned the
\* last entry, so that no call changes songCount's meaning under them, and
\* currentSong is an index of songList when the threads start.
C20_OpsAfterEnumeration ==
    [][ /\ ((nextInt \/ prevInt) => (dirLeft = 0))
        /\ ((mPc' = "open") => InRange(currentSong')) ]_vars

====
